---- MODULE Spec2Model ----
(***************************************************************************)
(* Model of the SSL certificate monitor (src/main.go).                     *)
(*                                                                         *)
(* main boots, runs checkCertificates once synchronously, then starts a    *)
(* cron scheduler that runs checkCertificates in a fresh goroutine at      *)
(* every firing.  A cycle walks the URL_* map, inspects each endpoint with *)
(* a blocking tls.Dial, accumulates allCerts / expiringCerts, and then     *)
(* calls sendEmail and sendSlackNotification.                              *)
(*                                                                         *)
(* Time is counted in tenths of an hour (six minutes), so that 24.5 h and  *)
(* 23.9 h are the integers 245 and 239.                                    *)
(***************************************************************************)
EXTENDS Integers, Sequences, FiniteSets

\* ------------------------------------------------------------- bounds

\* Number of URL_<label> labels the environment may define.
MaxEndpoints == 2

\* Number of times the cron schedule fires in a behaviour of SchedSpec.
MaxFires == 2

\* ---------------------------------------------------------- constants

\* One day, in tenths of an hour: the divisor 24 of main.go:152.
TicksPerDay == 240

\* The default secure port appended by getCertificateInfo.
DefaultPort == 443

\* The only status sendSlackNotification accepts (http.StatusOK).
StatusOK == 200

\* ------------------------------------------------------------- inputs

AllLabels == <<"A", "B", "C", "D">>

Labels == {AllLabels[i] : i \in 1..MaxEndpoints}

\* The raw value of URL_<label>: a scheme prefix, a host, and a port
\* (0 when the value names no port).
RawURL(name) ==
  CASE name = "A" -> [scheme |-> "https://", host |-> "host1", port |-> 0]
    [] name = "B" -> [scheme |-> "", host |-> "host2", port |-> 8443]
    [] name = "C" -> [scheme |-> "http://", host |-> "host3", port |-> 0]
    [] OTHER      -> [scheme |-> "https://", host |-> "host4", port |-> 443]

\* time.Until(cert.NotAfter) at the instant of an inspection, in ticks:
\* 25 h and 1 h in the past, 23.9 h, 24.5 h, and 7, 8, 14, 15, 30 and 31
\* days ahead.
Offsets == {-250, -10, 239, 245, 1680, 1920, 3360, 3600, 7200, 7440}

\* The offsets drawn when several cycles run side by side: 5 and 40 days.
SchedOffsets == {1200, 9600}

\* Subject.CommonName of a presented leaf: Go verifies the host name against
\* the SANs, so the CN is whatever the peer's certificate carries, or empty.
CommonNames == {"cn-from-peer", ""}

\* What the TLS peer may answer to a dial.
PeerAnswers(In) ==
  {[kind |-> "error", until |-> 0, cn |-> ""],
   [kind |-> "nocert", until |-> 0, cn |-> ""]}
    \cup {[kind |-> "cert", until |-> u, cn |-> n] : u \in In, n \in CommonNames}

\* What the webhook may answer to the POST: a transport error (0) or a status.
HttpAnswers == {0, 200, 204, 500}

\* Cycle 0 is the call main makes at start; 1..MaxFires are the cron's goroutines.
CycleIds == 0..MaxFires

Environments ==
  [urls : SUBSET Labels, emailConfigured : BOOLEAN, webhookConfigured : BOOLEAN]

VARIABLES
  mainPc,         \* position of main: "boot", "startup", "select", "exited"
  env,            \* the process environment after godotenv.Load
  fires,          \* number of cron firings so far
  pc,             \* per cycle: position inside checkCertificates
  todo,           \* per cycle: keys of urls the range loop has not visited
  cur,            \* per cycle: the key under inspection ("" when none)
  allCerts,       \* per cycle: local allCerts
  expiringCerts,  \* per cycle: local expiringCerts
  inspections,    \* per cycle: label -> number of getCertificateInfo calls
  outcome,        \* per cycle: label -> "none" | "failed" | "ok"
  calls,          \* per cycle: dispatcher invocations, in order, with arguments
  report,         \* per cycle: what buildEmailBody rendered
  alert,          \* per cycle: what sendSlackNotification rendered
  sends,          \* per cycle: [smtp, http] delivery attempts made
  dispatchLog,    \* per cycle: [email, slack] logged dispatch outcomes
  logSink         \* [started, completed] cycle markers written to the log

vars == <<mainPc, env, fires, pc, todo, cur, allCerts, expiringCerts,
          inspections, outcome, calls, report, alert, sends, dispatchLog,
          logSink>>

\* ------------------------------------------------------ pure functions

\* int(x): Go's float-to-int conversion truncates toward zero.
TruncDiv(a, b) == IF a >= 0 THEN a \div b ELSE -((-a) \div b)

\* daysRemaining := int(time.Until(expiryDate).Hours() / 24)
daysRemaining(until) == TruncDiv(until, TicksPerDay)

\* strings.TrimPrefix twice, then ":443" unless the value contains ":".
NormalizeURL(raw) ==
  [host |-> raw.host, port |-> IF raw.port = 0 THEN DefaultPort ELSE raw.port]

\* The CertInfo getCertificateInfo returns for a presented leaf certificate.
\* ExpiryDate is kept relative to the inspection instant.
CertInfo(name, until, cn) ==
  [URL |-> NormalizeURL(RawURL(name)), Name |-> name, ExpiryDate |-> until,
   DaysRemaining |-> daysRemaining(until), CommonName |-> cn]

\* A filter that drops the boundary day.
IsExpiringStrict(cert) == cert.DaysRemaining < 14

\* if certInfo.DaysRemaining <= 14
IsExpiring(cert) == cert.DaysRemaining <= 14

\* The statistics loop of buildEmailBody: the band a record is counted in.
StatBand(d) ==
  IF d <= 7 THEN "critical"
  ELSE IF d <= 14 THEN "warning"
  ELSE IF d <= 30 THEN "caution"
  ELSE "ok"

\* The badge class of a card in the "Certificates Expiring Soon" section.
SectionBadge(d) == IF d <= 7 THEN "badge-critical" ELSE "badge-warning"

\* The badge class of a card in the "All Monitored Certificates" listing.
ListingBadge(d) ==
  IF d <= 7 THEN "badge-critical"
  ELSE IF d <= 14 THEN "badge-warning"
  ELSE IF d <= 30 THEN "badge-caution"
  ELSE "badge-ok"

\* An alert whose critical threshold drops the boundary day.
SlackEmojiStrict(d) == IF d < 7 THEN "red_circle" ELSE "warning_sign"

\* The emoji that opens a record's paragraph of the Slack message.
SlackEmoji(d) == IF d <= 7 THEN "red_circle" ELSE "warning_sign"

CountBand(certs, band) ==
  Cardinality({i \in DOMAIN certs : StatBand(certs[i].DaysRemaining) = band})

\* One rendered record: the fields the format strings print, and its mark.
Card(cert, badge) ==
  [Name |-> cert.Name, URL |-> cert.URL, CommonName |-> cert.CommonName,
   DaysRemaining |-> cert.DaysRemaining, badge |-> badge]

\* What buildEmailBody renders from its two arguments.
buildEmailBody(all, expiring) ==
  [criticalCount |-> CountBand(all, "critical"),
   warningCount  |-> CountBand(all, "warning"),
   cautionCount  |-> CountBand(all, "caution"),
   okCount       |-> CountBand(all, "ok"),
   section |-> [i \in DOMAIN expiring |->
                  Card(expiring[i], SectionBadge(expiring[i].DaysRemaining))],
   listing |-> [i \in DOMAIN all |->
                  Card(all[i], ListingBadge(all[i].DaysRemaining))]]

\* The message sendSlackNotification builds from its argument.
SlackMessage(certs) ==
  [i \in DOMAIN certs |-> Card(certs[i], SlackEmoji(certs[i].DaysRemaining))]

NoReport ==
  [criticalCount |-> 0, warningCount |-> 0, cautionCount |-> 0, okCount |-> 0,
   section |-> <<>>, listing |-> <<>>]

\* ------------------------------------------------------ control points

\* A loop that stops one key short.
LoopDoneEarly(c) == Cardinality(todo[c]) <= 1

\* The range loop of checkCertificates has visited every key.
LoopDone(c) == todo[c] = {}

\* A loop that breaks at the first failed inspection.
OnInspectErrorBreak == "email"

\* Where the loop goes after a failed inspection: "continue".
OnInspectError == "loop"

\* A report sent whatever the loop collected.
EmailDueAlways(all) == TRUE

\* if len(allCerts) > 0
EmailDue(all) == Len(all) > 0

\* An alert sent whatever the loop collected.
SlackDueAlways(expiring) == TRUE

\* if len(expiringCerts) > 0
SlackDue(expiring) == Len(expiring) > 0

\* A delivery error that ends the cycle.
AfterEmailAbort(logged) == IF logged = "error" THEN "complete" ELSE "slack"

\* Where checkCertificates resumes when sendEmail returns, whatever it logged.
AfterEmail(logged) == "slack"

\* Where checkCertificates resumes when sendSlackNotification returns.
AfterSlack(logged) == "complete"

\* ---------------------------------------------------------------- Init

NoCounts == [n \in Labels |-> 0]
NoOutcome == [n \in Labels |-> "none"]

Init ==
  /\ mainPc = "boot"
  /\ env = [urls |-> {}, emailConfigured |-> FALSE, webhookConfigured |-> FALSE]
  /\ fires = 0
  /\ pc = [c \in CycleIds |-> "idle"]
  /\ todo = [c \in CycleIds |-> {}]
  /\ cur = [c \in CycleIds |-> ""]
  /\ allCerts = [c \in CycleIds |-> <<>>]
  /\ expiringCerts = [c \in CycleIds |-> <<>>]
  /\ inspections = [c \in CycleIds |-> NoCounts]
  /\ outcome = [c \in CycleIds |-> NoOutcome]
  /\ calls = [c \in CycleIds |-> <<>>]
  /\ report = [c \in CycleIds |-> NoReport]
  /\ alert = [c \in CycleIds |-> <<>>]
  /\ sends = [c \in CycleIds |-> [smtp |-> 0, http |-> 0]]
  /\ dispatchLog = [c \in CycleIds |-> [email |-> "none", slack |-> "none"]]
  /\ logSink = [started |-> 0, completed |-> 0]

cycleVars == <<pc, todo, cur, allCerts, expiringCerts, inspections, outcome,
               calls, report, alert, sends, dispatchLog, logSink>>

\* ---------------------------------------------------------------- main

\* initLogger or godotenv.Load fails: log.Fatal ends the process.
BootFails ==
  /\ mainPc = "boot"
  /\ mainPc' = "exited"
  /\ UNCHANGED <<env, fires>>
  /\ UNCHANGED cycleVars

\* The environment is loaded and main calls checkCertificates (cycle 0).
Boot ==
  /\ mainPc = "boot"
  /\ \E e \in Environments : env' = e
  /\ mainPc' = "startup"
  /\ pc' = [pc EXCEPT ![0] = "start"]
  /\ UNCHANGED <<fires, todo, cur, allCerts, expiringCerts, inspections,
                 outcome, calls, report, alert, sends, dispatchLog, logSink>>

\* The first call has returned: cron.New, AddFunc, Start, then select {}.
StartCron ==
  /\ mainPc = "startup"
  /\ pc[0] = "returned"
  /\ mainPc' = "select"
  /\ UNCHANGED <<env, fires>>
  /\ UNCHANGED cycleVars

\* The schedule fires: the cron library runs the job in a new goroutine,
\* whatever earlier jobs are doing (cron.New() installs no job wrapper).
CronFire ==
  /\ mainPc = "select"
  /\ fires < MaxFires
  /\ fires' = fires + 1
  /\ pc' = [pc EXCEPT ![fires + 1] = "start"]
  /\ UNCHANGED <<mainPc, env, todo, cur, allCerts, expiringCerts, inspections,
                 outcome, calls, report, alert, sends, dispatchLog, logSink>>

\* --------------------------------------------------- checkCertificates

\* Lines 72-78: the start marker, getURLsFromEnv, the empty-set return.
Start(c) ==
  /\ pc[c] = "start"
  /\ logSink' = [logSink EXCEPT !.started = @ + 1]
  /\ IF env.urls = {}
       THEN /\ pc' = [pc EXCEPT ![c] = "returned"]
            /\ todo' = todo
       ELSE /\ pc' = [pc EXCEPT ![c] = "loop"]
            /\ todo' = [todo EXCEPT ![c] = env.urls]
  /\ UNCHANGED <<mainPc, env, fires, cur, allCerts, expiringCerts, inspections,
                 outcome, calls, report, alert, sends, dispatchLog>>

\* Lines 83-84 and 127-139: the loop takes a key it has not visited (a Go
\* map is ranged in no particular order) and getCertificateInfo dials it.
Inspect(c) ==
  /\ pc[c] = "loop"
  /\ \E n \in todo[c] :
       /\ todo' = [todo EXCEPT ![c] = @ \ {n}]
       /\ cur' = [cur EXCEPT ![c] = n]
       /\ inspections' = [inspections EXCEPT ![c][n] = @ + 1]
  /\ pc' = [pc EXCEPT ![c] = "dial"]
  /\ UNCHANGED <<mainPc, env, fires, allCerts, expiringCerts, outcome, calls,
                 report, alert, sends, dispatchLog, logSink>>

\* Lines 140-160 and 85-95: tls.Dial returns and the loop body finishes.
PeerResponds(c, In) ==
  /\ pc[c] = "dial"
  /\ \E a \in PeerAnswers(In) :
       IF a.kind = "cert"
         THEN LET certInfo == CertInfo(cur[c], a.until, a.cn) IN
              /\ allCerts' = [allCerts EXCEPT ![c] = Append(@, certInfo)]
              /\ expiringCerts' =
                   [expiringCerts EXCEPT
                      ![c] = IF IsExpiring(certInfo) THEN Append(@, certInfo) ELSE @]
              /\ outcome' = [outcome EXCEPT ![c][cur[c]] = "ok"]
              /\ pc' = [pc EXCEPT ![c] = "loop"]
         ELSE /\ outcome' = [outcome EXCEPT ![c][cur[c]] = "failed"]
              /\ pc' = [pc EXCEPT ![c] = OnInspectError]
              /\ UNCHANGED <<allCerts, expiringCerts>>
  /\ cur' = [cur EXCEPT ![c] = ""]
  /\ UNCHANGED <<mainPc, env, fires, todo, inspections, calls, report, alert,
                 sends, dispatchLog, logSink>>

\* Line 96: the range loop ends.
LoopExit(c) ==
  /\ pc[c] = "loop"
  /\ LoopDone(c)
  /\ pc' = [pc EXCEPT ![c] = "email"]
  /\ UNCHANGED <<mainPc, env, fires, todo, cur, allCerts, expiringCerts,
                 inspections, outcome, calls, report, alert, sends, dispatchLog,
                 logSink>>

\* Lines 99-101 and 163-188: sendEmail is called when allCerts is not empty;
\* it returns at once without its configuration, else renders the body and
\* blocks in smtp.SendMail.
ReportDispatch(c) ==
  /\ pc[c] = "email"
  /\ IF EmailDue(allCerts[c])
       THEN /\ calls' = [calls EXCEPT ![c] =
                 Append(@, [fn |-> "sendEmail", all |-> allCerts[c],
                            expiring |-> expiringCerts[c]])]
            /\ IF env.emailConfigured
                 THEN /\ report' = [report EXCEPT ![c] =
                           buildEmailBody(allCerts[c], expiringCerts[c])]
                      /\ sends' = [sends EXCEPT ![c].smtp = @ + 1]
                      /\ pc' = [pc EXCEPT ![c] = "smtp"]
                      /\ UNCHANGED dispatchLog
                 ELSE /\ dispatchLog' = [dispatchLog EXCEPT ![c].email = "skipped"]
                      /\ pc' = [pc EXCEPT ![c] = AfterEmail("skipped")]
                      /\ UNCHANGED <<report, sends>>
       ELSE /\ pc' = [pc EXCEPT ![c] = "slack"]
            /\ UNCHANGED <<calls, report, sends, dispatchLog>>
  /\ UNCHANGED <<mainPc, env, fires, todo, cur, allCerts, expiringCerts,
                 inspections, outcome, alert, logSink>>

\* Lines 188-195: smtp.SendMail returns, with an error or without.
SmtpResponds(c) ==
  /\ pc[c] = "smtp"
  /\ \E logged \in {"error", "sent"} :
       /\ dispatchLog' = [dispatchLog EXCEPT ![c].email = logged]
       /\ pc' = [pc EXCEPT ![c] = AfterEmail(logged)]
  /\ UNCHANGED <<mainPc, env, fires, todo, cur, allCerts, expiringCerts,
                 inspections, outcome, calls, report, alert, sends, logSink>>

\* Lines 104-106 and 549-593: sendSlackNotification is called when
\* expiringCerts is not empty; it returns at once without the webhook URL,
\* else builds the message and blocks in http.Post.
AlertDispatch(c) ==
  /\ pc[c] = "slack"
  /\ IF SlackDue(expiringCerts[c])
       THEN /\ calls' = [calls EXCEPT ![c] =
                 Append(@, [fn |-> "sendSlackNotification",
                            all |-> <<>>, expiring |-> expiringCerts[c]])]
            /\ IF env.webhookConfigured
                 THEN /\ alert' = [alert EXCEPT ![c] = SlackMessage(expiringCerts[c])]
                      /\ sends' = [sends EXCEPT ![c].http = @ + 1]
                      /\ pc' = [pc EXCEPT ![c] = "post"]
                      /\ UNCHANGED dispatchLog
                 ELSE /\ dispatchLog' = [dispatchLog EXCEPT ![c].slack = "skipped"]
                      /\ pc' = [pc EXCEPT ![c] = AfterSlack("skipped")]
                      /\ UNCHANGED <<alert, sends>>
       ELSE /\ pc' = [pc EXCEPT ![c] = "complete"]
            /\ UNCHANGED <<calls, alert, sends, dispatchLog>>
  /\ UNCHANGED <<mainPc, env, fires, todo, cur, allCerts, expiringCerts,
                 inspections, outcome, report, logSink>>

\* Lines 593-605: http.Post returns a transport error or a response.
HttpResponds(c) ==
  /\ pc[c] = "post"
  /\ \E status \in HttpAnswers :
       LET logged == IF status = 0 THEN "error"
                     ELSE IF status # StatusOK THEN "failed"
                     ELSE "sent" IN
       /\ dispatchLog' = [dispatchLog EXCEPT ![c].slack = logged]
       /\ pc' = [pc EXCEPT ![c] = AfterSlack(logged)]
  /\ UNCHANGED <<mainPc, env, fires, todo, cur, allCerts, expiringCerts,
                 inspections, outcome, calls, report, alert, sends, logSink>>

\* Lines 108-109: the completion marker; the cycle's locals die with the call.
Complete(c) ==
  /\ pc[c] = "complete"
  /\ logSink' = [logSink EXCEPT !.completed = @ + 1]
  /\ pc' = [pc EXCEPT ![c] = "returned"]
  /\ todo' = [todo EXCEPT ![c] = {}]
  /\ allCerts' = [allCerts EXCEPT ![c] = <<>>]
  /\ expiringCerts' = [expiringCerts EXCEPT ![c] = <<>>]
  /\ inspections' = [inspections EXCEPT ![c] = NoCounts]
  /\ outcome' = [outcome EXCEPT ![c] = NoOutcome]
  /\ calls' = [calls EXCEPT ![c] = <<>>]
  /\ report' = [report EXCEPT ![c] = NoReport]
  /\ alert' = [alert EXCEPT ![c] = <<>>]
  /\ sends' = [sends EXCEPT ![c] = [smtp |-> 0, http |-> 0]]
  /\ dispatchLog' = [dispatchLog EXCEPT ![c] = [email |-> "none", slack |-> "none"]]
  /\ UNCHANGED <<mainPc, env, fires, cur>>

\* ------------------------------------------------------ specifications

\* The steps the Go runtime takes on its own.
ProgramStep ==
  \/ BootFails
  \/ Boot
  \/ StartCron
  \/ \E c \in CycleIds :
       Start(c) \/ Inspect(c) \/ LoopExit(c) \/ ReportDispatch(c)
         \/ AlertDispatch(c) \/ Complete(c)

\* The process up to the first firing of the schedule: one cycle.
Next ==
  \/ BootFails
  \/ Boot
  \/ StartCron
  \/ \E c \in CycleIds : Start(c)
  \/ \E c \in CycleIds : Inspect(c)
  \/ \E c \in CycleIds : PeerResponds(c, Offsets)
  \/ \E c \in CycleIds : LoopExit(c)
  \/ \E c \in CycleIds : ReportDispatch(c)
  \/ \E c \in CycleIds : SmtpResponds(c)
  \/ \E c \in CycleIds : AlertDispatch(c)
  \/ \E c \in CycleIds : HttpResponds(c)
  \/ \E c \in CycleIds : Complete(c)

Spec == Init /\ [][Next]_vars

\* The same, with the runtime scheduling every step the program can take.
\* The peers (TLS server, mail server, webhook) owe the program nothing.
FairSpec == Init /\ [][Next]_vars /\ WF_vars(ProgramStep)

\* The process with its schedule firing.
NextSched ==
  \/ BootFails
  \/ Boot
  \/ StartCron
  \/ CronFire
  \/ \E c \in CycleIds : Start(c)
  \/ \E c \in CycleIds : Inspect(c)
  \/ \E c \in CycleIds : PeerResponds(c, SchedOffsets)
  \/ \E c \in CycleIds : LoopExit(c)
  \/ \E c \in CycleIds : ReportDispatch(c)
  \/ \E c \in CycleIds : SmtpResponds(c)
  \/ \E c \in CycleIds : AlertDispatch(c)
  \/ \E c \in CycleIds : HttpResponds(c)
  \/ \E c \in CycleIds : Complete(c)

SchedSpec == Init /\ [][NextSched]_vars

\* -------------------------------------------------------------- claims

\* The loop of the cycle has ended and its locals are still alive.
PostLoop(c) == pc[c] \in {"email", "smtp", "slack", "post", "complete"}

Active(c) == pc[c] \notin {"idle", "returned"}

Names(certs) == {certs[i].Name : i \in DOMAIN certs}

SlackCalls(c) ==
  {i \in DOMAIN calls[c] : calls[c][i].fn = "sendSlackNotification"}

EmailCalls(c) == {i \in DOMAIN calls[c] : calls[c][i].fn = "sendEmail"}

AtMost14(cert) == cert.DaysRemaining <= 14

\* C1: after the inspection loop, expiringCerts is exactly the sub-sequence
\* of allCerts whose records have DaysRemaining <= 14, in the same order.
C1_ExpiringIsFilterOfAll ==
  \A c \in CycleIds :
    PostLoop(c) => expiringCerts[c] = SelectSeq(allCerts[c], AtMost14)

C1_Witness ==
  \E c \in CycleIds :
    /\ PostLoop(c)
    /\ Len(allCerts[c]) = 2
    /\ Len(expiringCerts[c]) = 1
    /\ expiringCerts[c][1].DaysRemaining = 14
    /\ \E i \in DOMAIN allCerts[c] : allCerts[c][i].DaysRemaining = 15

\* C2: in one cycle every configured endpoint is inspected exactly once,
\* whatever the other inspections did; a failed inspection leaves no record
\* in either list and a successful one leaves exactly one record in allCerts.
C2_EveryEndpointInspectedOnce ==
  \A c \in CycleIds :
    /\ \A n \in Labels : inspections[c][n] <= 1
    /\ PostLoop(c) =>
         /\ \A n \in Labels : inspections[c][n] = (IF n \in env.urls THEN 1 ELSE 0)
         /\ \A n \in env.urls :
              /\ outcome[c][n] \in {"failed", "ok"}
              /\ outcome[c][n] = "failed" =>
                   n \notin Names(allCerts[c]) \cup Names(expiringCerts[c])
              /\ outcome[c][n] = "ok" =>
                   Cardinality({i \in DOMAIN allCerts[c] : allCerts[c][i].Name = n}) = 1
         /\ Names(allCerts[c]) \subseteq env.urls

C2_Witness ==
  \E c \in CycleIds :
    /\ PostLoop(c)
    /\ \E n, m \in env.urls :
         /\ outcome[c][n] = "failed"
         /\ outcome[c][m] = "ok"
         /\ Names(allCerts[c]) = {m}

\* C3: when allCerts is empty after the loop (no endpoint configured, or
\* every inspection failed) neither sendEmail nor sendSlackNotification is
\* called and nothing is delivered.
C3_NoDispatchWhenAllEmpty ==
  \A c \in CycleIds :
    /\ (PostLoop(c) /\ allCerts[c] = <<>>) =>
         (calls[c] = <<>> /\ sends[c] = [smtp |-> 0, http |-> 0])
    /\ (Active(c) /\ env.urls = {}) => (calls[c] = <<>> /\ ~PostLoop(c))

C3_Witness ==
  \E c \in CycleIds :
    /\ pc[c] = "complete"
    /\ env.urls # {}
    /\ allCerts[c] = <<>>
    /\ \A n \in env.urls : outcome[c][n] = "failed"

\* C4: sendSlackNotification is not called in a cycle whose expiringCerts is
\* empty, even when sendEmail is; when expiringCerts is not empty it is
\* called with exactly expiringCerts, never with a record above 14 days.
C4_AlertOnlyForExpiring ==
  \A c \in CycleIds :
    /\ \A i \in SlackCalls(c) :
         /\ calls[c][i].expiring = expiringCerts[c]
         /\ calls[c][i].expiring # <<>>
         /\ \A j \in DOMAIN calls[c][i].expiring :
              calls[c][i].expiring[j].DaysRemaining <= 14
    /\ pc[c] \in {"post", "complete"} =>
         Cardinality(SlackCalls(c)) = (IF expiringCerts[c] = <<>> THEN 0 ELSE 1)

C4_Witness ==
  \E c \in CycleIds :
    /\ pc[c] = "complete"
    /\ expiringCerts[c] = <<>>
    /\ EmailCalls(c) # {}
    /\ SlackCalls(c) = {}

\* floor(u / TicksPerDay), from its definition.
FloorDays(u) ==
  CHOOSE q \in -50..50 : q * TicksPerDay <= u /\ u < (q + 1) * TicksPerDay

\* C5: DaysRemaining is the floor of the hours to expiry over 24, for future
\* and past expiries alike: 24.5 h gives 1, 23.9 h gives 0, and every expiry
\* in the past gives a negative value.
C5_DaysRemainingIsFloor ==
  \A c \in CycleIds :
    \A i \in DOMAIN allCerts[c] :
      /\ allCerts[c][i].DaysRemaining = FloorDays(allCerts[c][i].ExpiryDate)
      /\ allCerts[c][i].ExpiryDate < 0 => allCerts[c][i].DaysRemaining < 0

\* C6: at most one check cycle is active at any time, also when the schedule
\* fires while a cycle is still running.
C6_AtMostOneCycleActive ==
  Cardinality({c \in CycleIds : Active(c)}) <= 1

BandOf(d) ==
  IF d <= 7 THEN "CRITICAL"
  ELSE IF d <= 14 THEN "WARNING"
  ELSE IF d <= 30 THEN "CAUTION"
  ELSE "OK"

\* The band a rendered mark stands for.
MarkBand(mark) ==
  CASE mark \in {"critical", "badge-critical", "red_circle"} -> "CRITICAL"
    [] mark \in {"warning", "badge-warning", "warning_sign"} -> "WARNING"
    [] mark \in {"caution", "badge-caution"} -> "CAUTION"
    [] OTHER -> "OK"

CardsAgree(cards) ==
  \A i \in DOMAIN cards : MarkBand(cards[i].badge) = BandOf(cards[i].DaysRemaining)

InBand(cards, band) ==
  Cardinality({i \in DOMAIN cards : BandOf(cards[i].DaysRemaining) = band})

\* C7: a dispatcher's outcome never changes the course of the cycle: when
\* sendEmail returns (skipped, error or sent) the cycle goes on to the alert
\* check and calls sendSlackNotification exactly when expiringCerts is not
\* empty; when sendSlackNotification returns (skipped, error, failed status
\* or sent) the cycle goes on to its completion marker; each dispatcher
\* makes at most one delivery attempt, and none without its configuration.
C7_DispatchState ==
  \A c \in CycleIds :
    /\ sends[c].smtp <= 1
    /\ sends[c].http <= 1
    /\ ~env.emailConfigured => sends[c].smtp = 0
    /\ ~env.webhookConfigured => sends[c].http = 0
    /\ pc[c] \in {"post", "complete"} =>
         /\ SlackCalls(c) # {} <=> expiringCerts[c] # <<>>
         /\ EmailCalls(c) # {} <=> allCerts[c] # <<>>

C7_DispatchStep ==
  \A c \in CycleIds :
    /\ (pc[c] \in {"email", "smtp"} /\ pc'[c] \notin {"email", "smtp"}) =>
         pc'[c] = "slack"
    /\ (pc[c] \in {"slack", "post"} /\ pc'[c] \notin {"slack", "post"}) =>
         pc'[c] = "complete"
    /\ (pc[c] = "complete" /\ pc'[c] # "complete") =>
         /\ pc'[c] = "returned"
         /\ logSink'.completed = logSink.completed + 1
    /\ (pc[c] \in {"email", "smtp", "slack", "post"}) =>
         (allCerts'[c] = allCerts[c] /\ expiringCerts'[c] = expiringCerts[c])

\* C7: notification outcomes never affect the cycle: the state condition
\* holds in every state and the step condition on every step.
C7_NotificationIsolation == [](C7_DispatchState) /\ [][C7_DispatchStep]_vars

C7_Witness ==
  \E c \in CycleIds :
    /\ pc[c] = "complete"
    /\ dispatchLog[c].email = "error"
    /\ dispatchLog[c].slack = "failed"
    /\ sends[c] = [smtp |-> 1, http |-> 1]

\* C8: the report's counts, the report's listing, the report's expiring
\* section and the alert message all give a record the band of one threshold
\* function (<= 7 CRITICAL, 8-14 WARNING, 15-30 CAUTION, > 30 OK); the
\* boundary days 7, 8, 14, 15, 30, 31 fall in CRITICAL, WARNING, WARNING,
\* CAUTION, CAUTION, OK.
C8_OneClassification ==
  /\ \A c \in CycleIds :
       /\ CardsAgree(report[c].listing)
       /\ CardsAgree(report[c].section)
       /\ CardsAgree(alert[c])
       /\ report[c].criticalCount = InBand(report[c].listing, "CRITICAL")
       /\ report[c].warningCount = InBand(report[c].listing, "WARNING")
       /\ report[c].cautionCount = InBand(report[c].listing, "CAUTION")
       /\ report[c].okCount = InBand(report[c].listing, "OK")
  /\ <<MarkBand(StatBand(7)), MarkBand(StatBand(8)), MarkBand(StatBand(14)),
       MarkBand(StatBand(15)), MarkBand(StatBand(30)), MarkBand(StatBand(31))>>
       = <<"CRITICAL", "WARNING", "WARNING", "CAUTION", "CAUTION", "OK">>
  /\ <<MarkBand(ListingBadge(7)), MarkBand(ListingBadge(8)),
       MarkBand(ListingBadge(14)), MarkBand(ListingBadge(15)),
       MarkBand(ListingBadge(30)), MarkBand(ListingBadge(31))>>
       = <<"CRITICAL", "WARNING", "WARNING", "CAUTION", "CAUTION", "OK">>

C8_Witness ==
  \E c \in CycleIds :
    /\ Len(report[c].listing) = 2
    /\ \E i \in DOMAIN alert[c] : alert[c][i].DaysRemaining = 7
    /\ \E i \in DOMAIN report[c].section : report[c].section[i].DaysRemaining = 7
    /\ \E i \in DOMAIN report[c].listing : report[c].listing[i].DaysRemaining = 15

\* C9: every check cycle that starts eventually finishes.
C9_CycleTerminates ==
  \A c \in CycleIds : (pc[c] = "start") ~> (pc[c] = "returned")

\* C10: no dispatcher is called before the inspection of the last configured
\* endpoint has returned; the lists a dispatcher receives are the cycle's
\* final allCerts and expiringCerts; each dispatcher is called at most once
\* per cycle, sendEmail before sendSlackNotification.
C10_DispatchAfterLastInspection ==
  \A c \in CycleIds :
    /\ calls[c] # <<>> =>
         /\ todo[c] = {}
         /\ cur[c] = ""
         /\ \A n \in env.urls : outcome[c][n] # "none"
    /\ \A i \in EmailCalls(c) :
         /\ calls[c][i].all = allCerts[c]
         /\ calls[c][i].expiring = expiringCerts[c]
    /\ \A i \in SlackCalls(c) : calls[c][i].expiring = expiringCerts[c]
    /\ Cardinality(EmailCalls(c)) <= 1
    /\ Cardinality(SlackCalls(c)) <= 1
    /\ \A i \in EmailCalls(c) : \A j \in SlackCalls(c) : i < j

C10_Witness ==
  \E c \in CycleIds :
    /\ pc[c] = "complete"
    /\ Len(calls[c]) = 2
    /\ Len(allCerts[c]) = 2
    /\ Len(expiringCerts[c]) = 1

====
